---- MODULE Spec2Model ----
(***************************************************************************)
(* The request handlers of api/v2/views.py: seventeen view sets over the   *)
(* atmosphere tables, of which the ones that scope their query, change     *)
(* their permissions per verb or offer a related-list action are modelled. *)
(* A request is served by a fresh handler instance, step by step: Start    *)
(* (the instance is built), Permit (initial(): the permission check),      *)
(* Dispatch (the verb check and the action), and for the related actions   *)
(* SetQuery and ListRelated.                                               *)
(***************************************************************************)
EXTENDS Integers, FiniteSets, Sequences, TLC

VARIABLES now, groups, memberships, providers, sizes, identities,
          tags, projects, volumes, instances, nextId, classAttr, inflight

tables == <<groups, memberships, providers, sizes, identities,
            tags, projects, volumes, instances, nextId>>
vars == <<now, groups, memberships, providers, sizes, identities,
          tags, projects, volumes, instances, nextId, classAttr, inflight>>

\* ------------------------------------------------------------------ bounds
MaxId == 2
MaxTime == 1
MaxInflight == 2

Nil == "nil"
\* an absent date (end_date = None) or an absent query parameter
NoDate == 0 - 1
Anonymous == "anon"
Users == {"alice", "bob", "root"}
Requesters == Users \cup {Anonymous}
Ids == 1..MaxId
GroupIds == {"g1", "g2"}

\* request.user.username: the anonymous user's is the empty string
Username(u) == IF u = Anonymous THEN "" ELSE u
IsStaff(u) == u = "root"

\* ------------------------------------------------------ framework policies
SAFE_METHODS == {"GET", "HEAD", "OPTIONS"}

HasPermission(perm, u, method) ==
    CASE perm = "IsAuthenticatedOrReadOnly" -> method \in SAFE_METHODS \/ u # Anonymous
      [] perm = "IsAuthenticated" -> u # Anonymous
      [] perm = "IsAdminUser" -> u # Anonymous /\ IsStaff(u)
      [] OTHER -> TRUE

\* core.query.only_current(): the row's validity window holds the instant
only_current(row, t) ==
    /\ row.start_date <= t
    /\ (row.end_date = NoDate \/ t < row.end_date)


\* ------------------------------------------------------------ the handlers
Views == {"Tag", "Project", "Provider", "Identity", "Size", "Volume", "Instance"}

\* settings.REST_FRAMEWORK's DEFAULT_PERMISSION_CLASSES
DEFAULT_PERMISSION_CLASSES == "IsAuthenticatedOrReadOnly"

AllOf(model) == [model |-> model, rel |-> Nil, parent |-> 0]

\* the class bodies: what every new handler instance inherits
TagViewSet ==
    [permission_classes |-> "IsAuthenticatedOrReadOnly", get_queryset |-> "generic",
     queryset |-> AllOf("Tag"), serializer_class |-> "TagSerializer"]
ProjectViewSet ==
    [permission_classes |-> DEFAULT_PERMISSION_CLASSES, get_queryset |-> "scoped",
     queryset |-> AllOf("Project"), serializer_class |-> "ProjectSerializer"]
ProviderViewSet ==
    [permission_classes |-> "IsAuthenticated", get_queryset |-> "scoped",
     queryset |-> AllOf("Provider"), serializer_class |-> "ProviderSerializer"]
IdentityViewSet ==
    [permission_classes |-> DEFAULT_PERMISSION_CLASSES, get_queryset |-> "scoped",
     queryset |-> AllOf("Identity"), serializer_class |-> "IdentitySerializer"]
VolumeViewSet ==
    [permission_classes |-> DEFAULT_PERMISSION_CLASSES, get_queryset |-> "scoped",
     queryset |-> AllOf("Volume"), serializer_class |-> "VolumeSerializer"]
InstanceViewSet ==
    [permission_classes |-> DEFAULT_PERMISSION_CLASSES, get_queryset |-> "scoped",
     queryset |-> AllOf("Instance"), serializer_class |-> "InstanceSerializer"]
SizeViewSet ==
    [permission_classes |-> DEFAULT_PERMISSION_CLASSES, get_queryset |-> "scoped",
     queryset |-> AllOf("Size"), serializer_class |-> "SizeSerializer"]

ClassBodies ==
    [v \in Views |->
        CASE v = "Tag" -> TagViewSet
          [] v = "Project" -> ProjectViewSet
          [] v = "Provider" -> ProviderViewSet
          [] v = "Identity" -> IdentityViewSet
          [] v = "Volume" -> VolumeViewSet
          [] v = "Instance" -> InstanceViewSet
          [] OTHER -> SizeViewSet]

\* the bases a view set's instances are instances of
Bases(v) ==
    IF v = "Provider"
    THEN {"ReadOnlyModelViewSet", "GenericViewSet", "GenericAPIView", "APIView"}
    ELSE {"ModelViewSet", "GenericViewSet", "GenericAPIView", "APIView"}

AllMethods == {"GET", "POST", "PUT", "PATCH", "DELETE", "HEAD", "OPTIONS", "TRACE"}
http_method_names(v) ==
    IF v = "Provider" THEN {"GET", "HEAD", "OPTIONS", "TRACE"} ELSE AllMethods

\* the @detail_route() actions a view set declares
DetailRoutes(v) ==
    CASE v = "Project" -> {"instances", "volumes"}
      [] v = "Provider" -> {"sizes"}
      [] OTHER -> {}

\* the handler method the router binds to (route, verb), Nil when none is bound
ActionOf(v, route, method) ==
    LET writable == "ModelViewSet" \in Bases(v) IN
    CASE route = "list" /\ method = "GET" -> "list"
      [] route = "list" /\ method = "POST" /\ writable -> "create"
      [] route = "detail" /\ method = "GET" -> "retrieve"
      [] route = "detail" /\ method = "PUT" /\ writable -> "update"
      [] route = "detail" /\ method = "PATCH" /\ writable -> "partial_update"
      [] route = "detail" /\ method = "DELETE" /\ writable -> "destroy"
      [] route \in DetailRoutes(v) /\ method = "GET" -> route
      [] OTHER -> Nil

\* attribute lookup on a handler h = [inst, cls]: the instance's own, else the class's
Lookup(h, name) == IF name \in DOMAIN h.inst THEN h.inst[name] ELSE h.cls[name]

\* the assignment made on the class, which every handler instance shares
SetAttrOnClass(h, name, val) == [h EXCEPT !.cls[name] = val]

\* self.<name> = val
SetAttr(h, name, val) == [h EXCEPT !.inst = (name :> val) @@ h.inst]

NoAttrs == [x \in {} |-> Nil]

\* ------------------------------------------------------------- the queries
Rows(model) ==
    CASE model = "Tag" -> tags
      [] model = "Project" -> projects
      [] model = "Provider" -> providers
      [] model = "Identity" -> identities
      [] model = "Size" -> sizes
      [] model = "Volume" -> volumes
      [] OTHER -> instances

\* a lazy query set q, evaluated against the tables: all rows of a model, or
\* the rows a related manager yields (those whose q.rel field is the parent)
EvalQuery(q) ==
    IF q.rel = Nil
    THEN DOMAIN Rows(q.model)
    ELSE {i \in DOMAIN Rows(q.model) : Rows(q.model)[i][q.rel] = q.parent}

RelatedOf(model, rel, parent) == [model |-> model, rel |-> rel, parent |-> parent]

Found(ids) == [raised |-> FALSE, ids |-> ids]
DoesNotExist == [raised |-> TRUE, ids |-> {}]

\* Group.objects.get(name=...): the groups of that name
GroupsNamed(name) == {g \in DOMAIN groups : groups[g] = name}

\* group.providers.filter(only_current(), active=True)
CurrentProviders(g) ==
    {p \in memberships[g] :
        p \in DOMAIN providers /\ only_current(providers[p], now) /\ providers[p].active}

\* the project query without the owner clause
ProjectQuerysetAnyOwner(u) ==
    Found({p \in DOMAIN projects : only_current(projects[p], now)})

ProjectQueryset(u) ==
    Found({p \in DOMAIN projects :
        /\ only_current(projects[p], now)
        /\ groups[projects[p].owner] = Username(u)})

ProviderQueryset(u) ==
    LET gs == GroupsNamed(Username(u)) IN
    IF gs = {} THEN DoesNotExist
    ELSE Found(CurrentProviders(CHOOSE g \in gs : TRUE))

IdentityQueryset(u) ==
    LET gs == GroupsNamed(Username(u)) IN
    IF gs = {} THEN DoesNotExist
    ELSE LET ps == CurrentProviders(CHOOSE g \in gs : TRUE) IN
         Found({i \in DOMAIN identities :
            identities[i].created_by = u /\ identities[i].provider \in ps})

\* the volume query without the creator clause
VolumeQuerysetAnyone(u) ==
    Found({v \in DOMAIN volumes : only_current(volumes[v], now)})

VolumeQueryset(u) ==
    Found({v \in DOMAIN volumes :
        only_current(volumes[v], now) /\ volumes[v].created_by = u})

InstanceQueryset(u) ==
    Found({i \in DOMAIN instances :
        only_current(instances[i], now) /\ instances[i].created_by = u})

SizeQueryset(u) ==
    LET gs == GroupsNamed(Username(u)) IN
    IF gs = {} THEN DoesNotExist
    ELSE LET ps == CurrentProviders(CHOOSE g \in gs : TRUE) IN
         Found({z \in DOMAIN sizes :
            only_current(sizes[z], now) /\ sizes[z].provider \in ps})

\* the view set's own get_queryset
Scoped(v, u) ==
    CASE v = "Project" -> ProjectQueryset(u)
      [] v = "Provider" -> ProviderQueryset(u)
      [] v = "Identity" -> IdentityQueryset(u)
      [] v = "Volume" -> VolumeQueryset(u)
      [] v = "Instance" -> InstanceQueryset(u)
      [] v = "Size" -> SizeQueryset(u)
      [] OTHER -> Found(DOMAIN tags)

\* get_queryset() when the view set's override is lost: every row of the model
get_queryset_unscoped(h, v, u) == Found(EvalQuery(Lookup(h, "queryset")))

\* self.get_queryset(): the instance's replacement (GenericAPIView's, which
\* returns self.queryset) or the class's
get_queryset(h, v, u) ==
    IF Lookup(h, "get_queryset") = "generic"
    THEN Found(EvalQuery(Lookup(h, "queryset")))
    ELSE Scoped(v, u)

NoParams == [min_size |-> NoDate, max_size |-> NoDate, provider__id |-> NoDate]

\* the filter with min_size mapped to an exclusive bound
VolumeFilterExclusive(ids, params) ==
    {v \in ids :
        /\ (params.provider__id = NoDate \/ volumes[v].provider = params.provider__id)
        /\ (params.min_size = NoDate \/ volumes[v].size > params.min_size)
        /\ (params.max_size = NoDate \/ volumes[v].size <= params.max_size)}

\* VolumeFilter: provider__id exact, min_size -> size >= , max_size -> size <=
VolumeFilter(ids, params) ==
    {v \in ids :
        /\ (params.provider__id = NoDate \/ volumes[v].provider = params.provider__id)
        /\ (params.min_size = NoDate \/ volumes[v].size >= params.min_size)
        /\ (params.max_size = NoDate \/ volumes[v].size <= params.max_size)}

\* self.filter_queryset(): the filter class applies when the rows are volumes
filter_queryset(v, ids, params) ==
    IF v = "Volume" THEN VolumeFilter(ids, params) ELSE ids

\* ------------------------------------------------------------ the requests
NoData ==
    [name |-> Nil, user |-> Nil, owner |-> Nil, size |-> 0, provider |-> 0,
     project |-> 0, start_date |-> 0, end_date |-> NoDate]

Request(v, route, method, u, id, data, params) ==
    [view |-> v, route |-> route, method |-> method, user |-> u, id |-> id,
     data |-> data, params |-> params]

Idle ==
    [pc |-> "idle", req |-> Request("Tag", "list", "GET", Anonymous, 0, NoData, NoParams),
     attrs |-> NoAttrs, parent |-> 0, status |-> 0, body |-> {}, ser |-> Nil,
     trace |-> <<>>, overlap |-> FALSE]

Handler(s) == [inst |-> inflight[s].attrs, cls |-> classAttr[inflight[s].req.view]]

\* serializer.is_valid(): a tag needs its name unless the update is partial
Valid(v, data, partial) == v = "Tag" => (partial \/ data.name # Nil)

\* perform_create without the keyword: the payload's owner is stored
TagCreateFromPayload(data, u) ==
    [user |-> IF data.user = Nil THEN u ELSE data.user, name |-> data.name]

\* TagViewSet.perform_create: serializer.save(user=self.request.user); the
\* keyword overrides what the payload validated to
TagCreate(data, u) == [user |-> u, name |-> data.name]

\* the row serializer.save() inserts
NewRow(v, data, u) ==
    CASE v = "Tag" -> TagCreate(data, u)
      [] v = "Project" ->
            [owner |-> data.owner, start_date |-> data.start_date,
             end_date |-> data.end_date]
      [] v = "Volume" ->
            [created_by |-> data.user, size |-> data.size, provider |-> data.provider,
             project |-> data.project, start_date |-> data.start_date,
             end_date |-> data.end_date]
      [] v = "Instance" ->
            [created_by |-> data.user, project |-> data.project,
             start_date |-> data.start_date, end_date |-> data.end_date]
      [] v = "Size" ->
            [provider |-> data.provider, start_date |-> data.start_date,
             end_date |-> data.end_date]
      [] OTHER -> [created_by |-> data.user, provider |-> data.provider]

\* the row serializer.save() leaves on an update
UpdatedRow(v, row, data) ==
    CASE v = "Tag" -> [row EXCEPT !.name = IF data.name = Nil THEN @ ELSE data.name]
      [] v = "Project" ->
            [row EXCEPT !.owner = IF data.owner = Nil THEN @ ELSE data.owner,
                        !.end_date = data.end_date]
      [] v = "Volume" ->
            [row EXCEPT !.size = IF data.size = 0 THEN @ ELSE data.size,
                        !.end_date = data.end_date]
      [] v = "Instance" -> [row EXCEPT !.end_date = data.end_date]
      [] v = "Size" -> [row EXCEPT !.end_date = data.end_date]
      [] OTHER -> row

Without(T, id) == [i \in DOMAIN T \ {id} |-> T[i]]

Out(pc, status, body, parent, trace, table, next) ==
    [pc |-> pc, status |-> status, body |-> body, parent |-> parent,
     trace |-> trace, table |-> table, next |-> next]

\* APIView.dispatch after initial(): the verb check, then the bound action
Outcome(s) ==
    LET r == inflight[s].req
        v == r.view
        h == Handler(s)
        T == Rows(v)
        n == nextId[v]
        act == IF r.method \in http_method_names(v)
               THEN ActionOf(v, r.route, r.method) ELSE Nil
        qs == get_queryset(h, v, r.user)
        visible == filter_queryset(v, qs.ids, r.params)
    IN  IF act = Nil THEN Out("done", 405, {}, 0, <<>>, T, n)
        ELSE IF act = "create" THEN
            IF ~Valid(v, r.data, FALSE) THEN Out("done", 400, {}, 0, <<>>, T, n)
            ELSE Out("done", 201, {n}, 0, <<>>,
                     (n :> NewRow(v, r.data, r.user)) @@ T, n + 1)
        ELSE IF qs.raised THEN Out("done", 500, {}, 0, <<"get_queryset">>, T, n)
        ELSE IF act = "list" THEN Out("done", 200, visible, 0, <<"list">>, T, n)
        ELSE IF r.id \notin visible THEN Out("done", 404, {}, 0, <<"get_object">>, T, n)
        ELSE IF act = "retrieve" THEN Out("done", 200, {r.id}, 0, <<"get_object">>, T, n)
        ELSE IF act \in {"update", "partial_update"} THEN
            IF ~Valid(v, r.data, act = "partial_update")
            THEN Out("done", 400, {}, 0, <<"get_object">>, T, n)
            ELSE Out("done", 200, {r.id}, 0, <<"get_object">>,
                     [T EXCEPT ![r.id] = UpdatedRow(v, T[r.id], r.data)], n)
        ELSE IF act = "destroy"
        THEN Out("done", 204, {}, 0, <<"get_object">>, Without(T, r.id), n)
        ELSE Out("setquery", 0, {}, r.id, <<"get_object">>, T, n)

Store(v, T) ==
    /\ tags' = IF v = "Tag" THEN T ELSE tags
    /\ projects' = IF v = "Project" THEN T ELSE projects
    /\ providers' = IF v = "Provider" THEN T ELSE providers
    /\ identities' = IF v = "Identity" THEN T ELSE identities
    /\ sizes' = IF v = "Size" THEN T ELSE sizes
    /\ volumes' = IF v = "Volume" THEN T ELSE volumes
    /\ instances' = IF v = "Instance" THEN T ELSE instances

\* get_permissions() that swaps for DELETE alone
get_permissions_delete(h, v, method) ==
    IF v \in {"Tag", "Provider"} /\ method = "DELETE"
    THEN SetAttr(h, "permission_classes", "IsAdminUser")
    ELSE h

\* get_permissions() without the swap
get_permissions_kept(h, v, method) == h

\* get_permissions(): DELETE and PUT swap the instance's permission classes
get_permissions(h, v, method) ==
    IF v \in {"Tag", "Provider"} /\ method \in {"DELETE", "PUT"}
    THEN SetAttr(h, "permission_classes", "IsAdminUser")
    ELSE h

\* whether a handler other than slot s's holds an attribute assigned by its request
Mutated(s) == \E t \in DOMAIN inflight \ {s} : DOMAIN inflight[t].attrs # {}

\* ------------------------------------------------------------- the actions
\* as_view(): a fresh handler instance per request
Start(s, r) ==
    /\ inflight[s].pc \in {"idle", "done"}
    /\ ActionOf(r.view, r.route, r.method) = "create" => nextId[r.view] <= MaxId
    /\ inflight' = [inflight EXCEPT ![s] = [Idle EXCEPT !.pc = "init", !.req = r]]
    /\ UNCHANGED <<now, tables, classAttr>>

\* APIView.initial(): check_permissions over get_permissions()
Permit(s) ==
    /\ inflight[s].pc = "init"
    /\ LET r == inflight[s].req
           h == get_permissions(Handler(s), r.view, r.method)
       IN  /\ classAttr' = [classAttr EXCEPT ![r.view] = h.cls]
           /\ IF HasPermission(Lookup(h, "permission_classes"), r.user, r.method)
              THEN inflight' = [inflight EXCEPT ![s].pc = "dispatch",
                                                ![s].attrs = h.inst]
              ELSE \E st \in {401, 403} :
                    /\ r.user # Anonymous => st = 403
                    /\ inflight' = [inflight EXCEPT ![s].pc = "done",
                                        ![s].attrs = h.inst, ![s].status = st]
    /\ UNCHANGED <<now, tables>>

Dispatch(s) ==
    /\ inflight[s].pc = "dispatch"
    /\ LET o == Outcome(s)
           v == inflight[s].req.view
       IN  /\ inflight' = [inflight EXCEPT ![s].pc = o.pc, ![s].status = o.status,
                    ![s].body = o.body, ![s].parent = o.parent,
                    ![s].ser = IF o.status = 200
                               THEN Lookup(Handler(s), "serializer_class") ELSE Nil,
                    ![s].trace = @ \o o.trace,
                    ![s].overlap = Mutated(s)]
           /\ Store(v, o.table)
           /\ nextId' = [nextId EXCEPT ![v] = o.next]
    /\ UNCHANGED <<now, groups, memberships, classAttr>>

\* the target of a related action: its model, the field that points back, its serializer
Relation(route) ==
    CASE route = "instances" ->
            [model |-> "Instance", rel |-> "project", ser |-> "InstanceSerializer"]
      [] route = "volumes" ->
            [model |-> "Volume", rel |-> "project", ser |-> "VolumeSerializer"]
      [] OTHER -> [model |-> "Size", rel |-> "provider", ser |-> "SizeSummarySerializer"]

\* the three assignments of a related action, after self.get_object():
\* super(viewsets.ModelViewSet, self) is a TypeError when self is no ModelViewSet
SetQuery(s) ==
    /\ inflight[s].pc = "setquery"
    /\ LET r == inflight[s].req
           rel == Relation(r.route)
           h1 == SetAttr(Handler(s), "get_queryset", "generic")
           h2 == SetAttr(h1, "queryset", RelatedOf(rel.model, rel.rel, inflight[s].parent))
           h3 == SetAttr(h2, "serializer_class", rel.ser)
       IN  IF "ModelViewSet" \notin Bases(r.view)
           THEN /\ inflight' = [inflight EXCEPT ![s].pc = "done", ![s].status = 500,
                                    ![s].trace = @ \o <<"TypeError">>]
                /\ UNCHANGED classAttr
           ELSE /\ inflight' = [inflight EXCEPT ![s].pc = "list", ![s].attrs = h3.inst,
                                    ![s].trace = @ \o <<"relation">>]
                /\ classAttr' = [classAttr EXCEPT ![r.view] = h3.cls]
    /\ UNCHANGED <<now, tables>>

\* self.list(): the substituted query, rendered by the substituted serializer
ListRelated(s) ==
    /\ inflight[s].pc = "list"
    /\ LET r == inflight[s].req
           h == Handler(s)
           qs == get_queryset(h, r.view, r.user)
       IN  inflight' = [inflight EXCEPT ![s].pc = "done",
                ![s].status = IF qs.raised THEN 500 ELSE 200,
                ![s].body = filter_queryset(r.view, qs.ids, r.params),
                ![s].ser = IF qs.raised THEN Nil ELSE Lookup(h, "serializer_class"),
                ![s].trace = @ \o <<"list">>]
    /\ UNCHANGED <<now, tables, classAttr>>

\* the clock the validity windows are read against
Tick ==
    /\ now < MaxTime
    /\ now' = now + 1
    /\ UNCHANGED <<tables, classAttr, inflight>>

\* ------------------------------------------------------ the specifications
CurrentRow == [active |-> TRUE, start_date |-> 0, end_date |-> NoDate]

\* the rows the database holds before the first request
Fixture ==
    /\ now = 0
    /\ memberships = ("g1" :> {1}) @@ ("g2" :> {1, 2})
    /\ sizes = (1 :> [provider |-> 1, start_date |-> 0, end_date |-> NoDate])
            @@ (2 :> [provider |-> 1, start_date |-> 0, end_date |-> 0])
            @@ (3 :> [provider |-> 2, start_date |-> 0, end_date |-> NoDate])
    /\ identities = (1 :> [created_by |-> "alice", provider |-> 1])
                 @@ (2 :> [created_by |-> "alice", provider |-> 2])
                 @@ (3 :> [created_by |-> "bob", provider |-> 1])
    /\ tags = (1 :> [user |-> "alice", name |-> "x"])
    /\ projects = (1 :> [owner |-> "g1", start_date |-> 0, end_date |-> NoDate])
    /\ volumes = (1 :> [created_by |-> "alice", size |-> 1, provider |-> 1,
                        project |-> 1, start_date |-> 0, end_date |-> NoDate])
    /\ instances = (1 :> [created_by |-> "alice", project |-> 1,
                          start_date |-> 0, end_date |-> NoDate])
                @@ (2 :> [created_by |-> "bob", project |-> 1,
                          start_date |-> 0, end_date |-> 1])
    /\ nextId = [v \in Views |-> IF v \in {"Instance"} THEN 3 ELSE 2]
    /\ classAttr = ClassBodies

\* ---- Tag
TagRequests ==
    {Request("Tag", "list", "GET", u, 0, NoData, NoParams) : u \in {Anonymous, "alice", "root"}}
    \cup {Request("Tag", "list", "POST", u, 0,
                  [NoData EXCEPT !.name = nm, !.user = ow], NoParams) :
            u \in {Anonymous, "alice", "root"}, nm \in {"x", Nil}, ow \in {Nil, "bob"}}
    \cup {Request("Tag", "detail", m, u, i, [NoData EXCEPT !.name = nm], NoParams) :
            m \in {"GET", "PUT", "PATCH", "DELETE"}, u \in {Anonymous, "alice", "root"},
            i \in Ids, nm \in {"y"}}

InitTag ==
    /\ Fixture
    /\ providers = [p \in {1, 2} |-> CurrentRow]
    /\ groups = ("g1" :> "alice") @@ ("g2" :> "staff")
    /\ inflight = [s \in {1} |-> Idle]

NextTag ==
    \/ \E r \in TagRequests : Start(1, r)
    \/ Permit(1)
    \/ Dispatch(1)

SpecTag == InitTag /\ [][NextTag]_vars

\* a step in which slot s answers its request
Answers(s) == inflight[s].pc # "done" /\ inflight'[s].pc = "done"

Slots == DOMAIN inflight

\* C2: a DELETE of a stored tag by an authenticated non-administrator is
\* answered 403 and changes no tag; by an administrator it is answered 204 and
\* removes the tag; a removed tag id never comes back, and a retrieve of a
\* removed id is answered 404.
C2_TagDelete ==
    [][/\ \A s \in Slots :
            LET r == inflight[s].req IN
            (Answers(s) /\ r.view = "Tag" /\ r.route = "detail" /\ r.id \in DOMAIN tags)
            => /\ (r.method = "DELETE" /\ r.user # Anonymous /\ ~IsStaff(r.user))
                    => (inflight'[s].status = 403 /\ tags' = tags)
               /\ (r.method = "DELETE" /\ IsStaff(r.user))
                    => (inflight'[s].status = 204 /\ r.id \notin DOMAIN tags')
       /\ \A i \in 1..(nextId["Tag"] - 1) : i \notin DOMAIN tags => i \notin DOMAIN tags'
       /\ \A s \in Slots :
            LET r == inflight[s].req IN
            (Answers(s) /\ r.view = "Tag" /\ r.route = "detail" /\ r.method = "GET"
                /\ r.id \notin DOMAIN tags)
            => inflight'[s].status = 404]_vars

\* a retrieve of a tag id that was stored and deleted has been answered 404
C2_Witness ==
    \E s \in Slots :
        /\ inflight[s].pc = "done" /\ inflight[s].status = 404
        /\ inflight[s].req.view = "Tag" /\ inflight[s].req.method = "GET"
        /\ inflight[s].req.id \in 1..(nextId["Tag"] - 1)

\* C7: every tag a step stores was created by a Tag POST answered in that
\* step, and its owner is the user who sent that POST, whatever owner the
\* payload carries.
C7_TagOwner ==
    [][\A i \in DOMAIN tags' \ DOMAIN tags :
        \E s \in Slots :
            /\ Answers(s) /\ inflight[s].req.view = "Tag"
            /\ inflight[s].req.method = "POST"
            /\ tags'[i].user = inflight[s].req.user]_vars

\* a POST whose payload names another owner has stored a tag owned by its sender
C7_Witness ==
    \E s \in Slots :
        /\ inflight[s].pc = "done" /\ inflight[s].status = 201
        /\ inflight[s].req.view = "Tag" /\ inflight[s].req.data.user = "bob"
        /\ \E i \in inflight[s].body :
            i \in DOMAIN tags /\ tags[i].user = inflight[s].req.user

\* ---- Project
ProjectRequests ==
    {Request("Project", "list", "GET", u, 0, NoData, NoParams) : u \in {"alice", "bob"}}
    \cup {Request("Project", "list", "POST", u, 0,
                  [NoData EXCEPT !.owner = g, !.start_date = t], NoParams) :
            u \in {"alice"}, g \in GroupIds, t \in {0, 1}}
    \cup {Request("Project", "detail", m, u, i, NoData, NoParams) :
            m \in {"GET", "DELETE"}, u \in {"alice", "bob"}, i \in Ids}
    \cup {Request("Project", "detail", "PATCH", u, i,
                  [NoData EXCEPT !.owner = g, !.end_date = e], NoParams) :
            u \in {"alice", "bob"}, i \in Ids, g \in {Nil, "g2"}, e \in {NoDate, 1}}
    \cup {Request("Project", rt, "GET", u, i, NoData, NoParams) :
            rt \in {"instances", "volumes"}, u \in {"alice", "bob"}, i \in Ids}

InitProject ==
    /\ Fixture
    /\ providers = [p \in {1, 2} |-> CurrentRow]
    /\ groups \in {("g1" :> "alice") @@ ("g2" :> "staff"),
                   ("g1" :> "alice") @@ ("g2" :> "bob")}
    /\ inflight = [s \in {1} |-> Idle]

NextProject ==
    \/ \E r \in ProjectRequests : Start(1, r)
    \/ Permit(1)
    \/ Dispatch(1)
    \/ SetQuery(1)
    \/ ListRelated(1)
    \/ Tick

SpecProject == InitProject /\ [][NextProject]_vars

\* project p's owner is named as the user is, and the instant is in p's window
OwnedAndActive(p, u) ==
    /\ groups[projects[p].owner] = u
    /\ projects[p].start_date <= now
    /\ (projects[p].end_date = NoDate \/ now < projects[p].end_date)

\* C1: the Project list answered to user U holds exactly the stored projects
\* whose owner's name is U's username and that are currently active.
C1_ProjectList ==
    [][\A s \in Slots :
        LET r == inflight[s].req IN
        (Answers(s) /\ r.view = "Project" /\ r.route = "list" /\ r.method = "GET")
        => /\ inflight'[s].status = 200
           /\ inflight'[s].body = {p \in DOMAIN projects : OwnedAndActive(p, r.user)}]_vars

\* a list was answered that holds one stored project and leaves another out
C1_Witness ==
    \E s \in Slots :
        /\ inflight[s].pc = "done" /\ inflight[s].status = 200
        /\ inflight[s].req.view = "Project" /\ inflight[s].req.route = "list"
        /\ \E p, q \in DOMAIN projects :
            /\ p \in inflight[s].body /\ q \notin inflight[s].body
            /\ OwnedAndActive(p, inflight[s].req.user)
            /\ ~OwnedAndActive(q, inflight[s].req.user)

Events(s) == {inflight[s].trace[k] : k \in DOMAIN inflight[s].trace}

\* C4: `instances` and `volumes` on a project the caller does not see (no
\* such row, another owner, or not active) are answered 404 without the
\* relation being fetched; a fetched relation always follows the parent lookup.
C4_RelatedParent ==
    [][\A s \in Slots :
        LET r == inflight[s].req IN
        (r.view = "Project" /\ r.route \in {"instances", "volumes"})
        => /\ (inflight[s].pc = "dispatch" /\ inflight'[s].pc # "dispatch"
                /\ ~(r.id \in DOMAIN projects /\ OwnedAndActive(r.id, r.user)))
              => (inflight'[s].pc = "done" /\ inflight'[s].status = 404)
           /\ inflight'[s].status = 404
              => inflight'[s].trace = <<"get_object">>
           /\ (\E k \in DOMAIN inflight'[s].trace : inflight'[s].trace[k] = "relation")
              => (inflight'[s].trace[1] = "get_object"
                  /\ inflight'[s].trace[2] = "relation")]_vars

\* `instances` of a stored project of another owner was answered 404
C4_Witness ==
    \E s \in Slots :
        /\ inflight[s].pc = "done" /\ inflight[s].status = 404
        /\ inflight[s].req.view = "Project" /\ inflight[s].req.route = "instances"
        /\ inflight[s].req.id \in DOMAIN projects
        /\ groups[projects[inflight[s].req.id].owner] # inflight[s].req.user
        /\ Events(s) = {"get_object"}

\* ---- Provider, Identity, Size
ProviderRequests ==
    {Request("Provider", "list", m, u, 0, NoData, NoParams) :
        m \in {"GET", "POST"}, u \in Requesters}
    \cup {Request("Provider", "detail", m, u, i, NoData, NoParams) :
            m \in {"GET", "PUT", "PATCH", "DELETE"}, u \in Requesters, i \in Ids}
    \cup {Request("Provider", "sizes", "GET", u, i, NoData, NoParams) :
            u \in Requesters, i \in Ids}
    \cup {Request(v, "list", "GET", u, 0, NoData, NoParams) :
            v \in {"Identity", "Size"}, u \in Users}
    \cup {Request(v, "detail", "GET", u, i, NoData, NoParams) :
            v \in {"Identity", "Size"}, u \in Users, i \in Ids}

ProviderRows ==
    {[active |-> TRUE, start_date |-> 0, end_date |-> NoDate],
     [active |-> FALSE, start_date |-> 0, end_date |-> NoDate],
     [active |-> TRUE, start_date |-> 0, end_date |-> 1]}

InitProvider ==
    /\ Fixture
    /\ providers \in [{1, 2} -> ProviderRows]
    /\ groups \in {("g1" :> "alice") @@ ("g2" :> "staff"),
                   ("g1" :> "alice") @@ ("g2" :> "bob")}
    /\ inflight = [s \in {1} |-> Idle]

NextProvider ==
    \/ \E r \in ProviderRequests : Start(1, r)
    \/ Permit(1)
    \/ Dispatch(1)
    \/ SetQuery(1)
    \/ Tick

SpecProvider == InitProvider /\ [][NextProvider]_vars

WriteMethods == {"POST", "PUT", "PATCH", "DELETE"}

\* C3 as stated: every POST, PUT, PATCH or DELETE on Provider is answered
\* method-not-allowed, whoever sends it, and leaves the provider rows as they were.
C3_SameForEveryRole ==
    [][\A s \in Slots :
        LET r == inflight[s].req IN
        (Answers(s) /\ r.view = "Provider" /\ r.method \in WriteMethods)
        => (inflight'[s].status = 405 /\ providers' = providers)]_vars

\* C3 as amended: no step changes a provider row, and a POST, PUT, PATCH or
\* DELETE on Provider is answered 401 or 403 to an anonymous requester, 403 to
\* an authenticated non-administrator sending PUT or DELETE, and 405 otherwise.
C3_RejectedAfterPermission ==
    [][/\ providers' = providers
       /\ \A s \in Slots :
            LET r == inflight[s].req
                st == inflight'[s].status
            IN  (Answers(s) /\ r.view = "Provider" /\ r.method \in WriteMethods)
                => IF r.user = Anonymous THEN st \in {401, 403}
                   ELSE IF r.method \in {"PUT", "DELETE"} /\ ~IsStaff(r.user)
                   THEN st = 403
                   ELSE st = 405]_vars

\* a DELETE of a stored provider was answered 405 to an administrator
C3_Witness ==
    \E s \in Slots :
        /\ inflight[s].pc = "done" /\ inflight[s].req.view = "Provider"
        /\ inflight[s].req.method = "DELETE" /\ inflight[s].req.user = "root"
        /\ inflight[s].status = 405
        /\ inflight[s].req.id \in DOMAIN providers

\* C5: a list or retrieve on Provider, Identity or Size by a user whose
\* eponymous group does not exist is answered 404.
C5_NoGroupNotFound ==
    \A s \in Slots :
        LET r == inflight[s].req IN
        (/\ inflight[s].pc = "done"
         /\ r.view \in {"Provider", "Identity", "Size"}
         /\ r.route \in {"list", "detail"} /\ r.method = "GET"
         /\ r.user # Anonymous
         /\ GroupsNamed(Username(r.user)) = {})
        => inflight[s].status = 404

\* C6: `sizes` on a provider the caller sees is answered 200 with every size of
\* that provider, active or not; on a provider the caller's group does not
\* hold as a current, active provider it is answered 404.
C6_ProviderSizes ==
    [][\A s \in Slots :
        LET r == inflight[s].req IN
        (Answers(s) /\ r.view = "Provider" /\ r.route = "sizes"
            /\ GroupsNamed(Username(r.user)) # {})
        => IF inflight[s].parent = r.id
           THEN /\ inflight'[s].status = 200
                /\ inflight'[s].body = {z \in DOMAIN sizes : sizes[z].provider = r.id}
           ELSE inflight'[s].status = 404]_vars

\* ---- Volume: the list and its filter
Sizes == {1, 2, 3}

VolumeRequests ==
    {Request("Volume", "list", "GET", u, 0, NoData,
             [min_size |-> m, max_size |-> n, provider__id |-> pr]) :
        u \in {"alice", "bob"}, m \in {NoDate} \cup Sizes, n \in {NoDate} \cup Sizes,
        pr \in {NoDate, 2}}
    \cup {Request("Volume", "list", "POST", u, 0,
                  [NoData EXCEPT !.user = c, !.size = z, !.provider = 1, !.project = 1],
                  NoParams) :
            u \in {"alice"}, c \in {"alice", "bob"}, z \in Sizes}
    \cup {Request("Volume", "detail", "PATCH", u, i, [NoData EXCEPT !.end_date = 1],
                  NoParams) : u \in {"alice", "bob"}, i \in Ids}
    \cup {Request("Volume", "detail", "DELETE", u, i, NoData, NoParams) :
            u \in {"alice", "bob"}, i \in Ids}

InitVolume ==
    /\ Fixture
    /\ providers = [p \in {1, 2} |-> CurrentRow]
    /\ groups = ("g1" :> "alice") @@ ("g2" :> "staff")
    /\ inflight = [s \in {1} |-> Idle]

NextVolume ==
    \/ \E r \in VolumeRequests : Start(1, r)
    \/ Permit(1)
    \/ Dispatch(1)
    \/ Tick

SpecVolume == InitVolume /\ [][NextVolume]_vars

\* volume v was created by u, is currently active, and its size is within the
\* bounds the parameters give, both inclusive
InRange(v, u, params) ==
    /\ volumes[v].created_by = u
    /\ volumes[v].start_date <= now
    /\ (volumes[v].end_date = NoDate \/ now < volumes[v].end_date)
    /\ (params.min_size = NoDate \/ params.min_size <= volumes[v].size)
    /\ (params.max_size = NoDate \/ volumes[v].size <= params.max_size)

\* C8: the Volume list answered to U with min_size=m and max_size=n holds only
\* volumes created by U, currently active, with m <= size <= n, and (no other
\* filter given) every such volume, those of size exactly m or n included.
C8_VolumeRange ==
    [][\A s \in Slots :
        LET r == inflight[s].req IN
        (Answers(s) /\ r.view = "Volume" /\ r.route = "list" /\ r.method = "GET")
        => /\ inflight'[s].status = 200
           /\ inflight'[s].body \subseteq {v \in DOMAIN volumes : InRange(v, r.user, r.params)}
           /\ r.params.provider__id = NoDate
              => inflight'[s].body = {v \in DOMAIN volumes : InRange(v, r.user, r.params)}]_vars

\* a list with both bounds was answered with a volume whose size is the lower
\* bound, leaving out a smaller active volume of the same user
C8_Witness ==
    \E s \in Slots :
        LET r == inflight[s].req IN
        /\ inflight[s].pc = "done" /\ inflight[s].status = 200
        /\ r.view = "Volume" /\ r.route = "list"
        /\ r.params.min_size # NoDate /\ r.params.max_size # NoDate
        /\ \E v \in inflight[s].body :
            v \in DOMAIN volumes /\ volumes[v].size = r.params.min_size
        /\ \E w \in DOMAIN volumes \ inflight[s].body :
            /\ volumes[w].created_by = r.user /\ only_current(volumes[w], now)
            /\ volumes[w].size < r.params.min_size

\* ---- Volume and Instance: the scoped detail operations
ScopedRequests ==
    {Request(v, "detail", m, u, i, NoData, NoParams) :
        v \in {"Volume", "Instance"}, m \in {"GET", "PUT", "DELETE"},
        u \in {"alice", "bob"}, i \in Ids}
    \cup {Request(v, "detail", "PATCH", u, i, [NoData EXCEPT !.end_date = 1], NoParams) :
            v \in {"Volume", "Instance"}, u \in {"alice", "bob"}, i \in Ids}
    \cup {Request("Volume", "list", "POST", u, 0,
                  [NoData EXCEPT !.user = c, !.size = 1, !.provider = 1, !.project = 1],
                  NoParams) :
            u \in {"alice"}, c \in {"alice", "bob"}}

NextScoped ==
    \/ \E r \in ScopedRequests : Start(1, r)
    \/ Permit(1)
    \/ Dispatch(1)
    \/ Tick

SpecScoped == InitVolume /\ [][NextScoped]_vars

\* row id of the view's table is in u's scoped query
InScope(v, id, u) ==
    /\ id \in DOMAIN Rows(v)
    /\ Rows(v)[id].created_by = u
    /\ Rows(v)[id].start_date <= now
    /\ (Rows(v)[id].end_date = NoDate \/ now < Rows(v)[id].end_date)

\* C9: a retrieve, update or delete on Volume or Instance of a row id outside
\* the requesting user's scoped query is answered 404 and changes no stored row.
C9_OutOfScope ==
    [][\A s \in Slots :
        LET r == inflight[s].req IN
        (Answers(s) /\ r.view \in {"Volume", "Instance"} /\ r.route = "detail"
            /\ ~InScope(r.view, r.id, r.user))
        => (inflight'[s].status = 404 /\ UNCHANGED tables)]_vars

\* a DELETE of a stored volume created by another user was answered 404
C9_Witness ==
    \E s \in Slots :
        LET r == inflight[s].req IN
        /\ inflight[s].pc = "done" /\ inflight[s].status = 404
        /\ r.view = "Volume" /\ r.method = "DELETE"
        /\ r.id \in DOMAIN volumes /\ volumes[r.id].created_by # r.user
        /\ only_current(volumes[r.id], now)

\* ---- requests served at the same time
HandlerRequests ==
    {Request("Tag", "detail", "GET", u, 1, NoData, NoParams) : u \in {Anonymous, "alice"}}
    \cup {Request("Tag", "detail", "DELETE", u, 1, NoData, NoParams) : u \in {"alice", "root"}}
    \cup {Request("Tag", "detail", "PUT", "alice", 1, [NoData EXCEPT !.name = "y"], NoParams)}
    \cup {Request("Project", "list", "GET", u, 0, NoData, NoParams) : u \in {"alice", "bob"}}
    \cup {Request("Project", rt, "GET", u, 1, NoData, NoParams) :
            rt \in {"instances", "volumes"}, u \in {"alice", "bob"}}

InitHandlers ==
    /\ Fixture
    /\ providers = [p \in {1, 2} |-> CurrentRow]
    /\ groups = ("g1" :> "alice") @@ ("g2" :> "bob")
    /\ inflight = [s \in 1..MaxInflight |-> Idle]

NextHandlers ==
    \E s \in 1..MaxInflight :
        \/ \E r \in HandlerRequests : Start(s, r)
        \/ Permit(s)
        \/ Dispatch(s)
        \/ SetQuery(s)
        \/ ListRelated(s)

SpecHandlers == InitHandlers /\ [][NextHandlers]_vars

\* C10: under every interleaving the class bodies stay as written, a GET on
\* Tag passes the permission check whoever sends it (the read-or-authenticated
\* policy), and a Project list is answered 200 with the caller's own active
\* projects rendered by the project serializer.
C10_NoSharedState ==
    [][/\ classAttr' = ClassBodies
       /\ \A s \in Slots :
            LET r == inflight[s].req IN
            /\ (inflight[s].pc = "init" /\ inflight'[s].pc # "init"
                    /\ r.view = "Tag" /\ r.method = "GET")
               => inflight'[s].pc = "dispatch"
            /\ (Answers(s) /\ r.view = "Project" /\ r.route = "list")
               => /\ inflight'[s].status = 200
                  /\ inflight'[s].ser = "ProjectSerializer"
                  /\ inflight'[s].body =
                        {p \in DOMAIN projects : OwnedAndActive(p, r.user)}]_vars

\* a Project list was answered with the caller's project after another
\* request's handler had been assigned to, while a related action holds its
\* replaced query and serializer
C10_Witness ==
    \E s, t \in Slots :
        /\ s # t
        /\ inflight[s].pc = "done" /\ inflight[s].req.view = "Project"
        /\ inflight[s].req.route = "list" /\ inflight[s].overlap
        /\ inflight[s].status = 200 /\ inflight[s].body # {}
        /\ inflight[t].req.view = "Project" /\ inflight[t].pc = "list"
        /\ "get_queryset" \in DOMAIN inflight[t].attrs

====
